---- MODULE Spec2Model ----
(***************************************************************************)
(* Discovery / normalisation / filtering core of poly-ops-console.         *)
(*                                                                         *)
(*   SpecPage    get_current_events   (backend_functions/discovery.py)     *)
(*   SpecSearch  search_events        (backend_functions/discovery.py)     *)
(*   SpecFilter  filter_events        (backend_functions/discovery.py)     *)
(*   SpecNorm    EventNode.from_json  (data/events_node.py)                *)
(*   SpecMatch   is_match             (backend_functions/discovery.py)     *)
(*   SpecPool    search_events with more results than pool threads         *)
(*   SpecTokens  MarketNode.tokens    (data/events_node.py)                *)
(*   SpecFlow    PolyTerminal.run_discovery_flow             (main.py)     *)
(*   SpecTwice   filter_events applied to its own result                   *)
(*                                                                         *)
(* Each specification drives one function; the variables of the other      *)
(* functions stay at their idle values.                                    *)
(***************************************************************************)
EXTENDS Integers, Sequences, FiniteSets, TLC

VARIABLES
    \* ---- get_current_events ----
    pg_pc,          \* "loop" | "await" | "done"
    limit,          \* the caller's cap
    all_events,     \* records accumulated so far
    offset,         \* offset of the next page request
    current_limit,  \* limit of the page request in flight
    pg_requests,    \* history: the page requests issued, in order
    pg_pages,       \* history: the pages received, in order
    pg_failed,      \* history: a page request raised RequestException
    pg_result,      \* the returned list (None until the call returns)
    \* ---- search_events ----
    s_pc,            \* "start" | "searching" | "enrich" | "unwind" | "returned" | "raised"
    enrich,          \* the enrich parameter
    search_results,  \* search_results['events'] as the endpoint gave it
    events,          \* the non-closed results, in order
    enriched_events, \* the pre-allocated result slots
    task,            \* per index: "queued" | "running" | "done" (the future)
    fut,             \* per index: what fetch_full_event returned
    completed,       \* futures collected by the main loop
    s_result,        \* the returned list
    s_exc,           \* the exception escaping the call ("none" if none)
    search_requests, \* history: search requests issued
    detail_requests, \* history: per index, detail requests issued
    detail_log,      \* history: per index, what the detail endpoint did
    finish_order,    \* history: indices in the order the workers finished
    search_log,      \* history: how the search request ended ("pending" before)
    slot_writes,     \* history: per slot, the writes made to it, in order
    \* ---- filter_events ----
    f_pc,            \* "loop" | "returned" | "raised"
    f_events,        \* the events argument
    min_vol,         \* None or Some(floor)
    min_liquidity,   \* None or Some(floor)
    volume_24hr_min, \* None or Some(floor)
    expiring_soon,   \* the flag (None behaves as False)
    search_query,    \* None or Some(string)
    now,             \* datetime.now(timezone.utc), in hours
    f_i,             \* events examined so far
    filtered,        \* the list being built
    f_result,        \* the returned list
    f_exc,           \* the exception escaping the call ("none" if none)
    \* ---- EventNode.from_json ----
    n_pc,            \* "start" | "built" | "raised"
    data,            \* the raw record
    n_node,          \* the EventNode built
    n_exc,           \* the exception escaping the call ("none" if none)
    \* ---- is_match ----
    m_pc,            \* "call" | "returned"
    m_query,         \* the query argument
    m_text,          \* the text argument
    m_result,        \* the returned truth value (None until the call returns)
    \* ---- MarketNode.tokens ----
    tk_pc,              \* "call" | "returned"
    tk_outcomes,        \* self.outcomes
    tk_clob_token_ids,  \* self.clob_token_ids
    tk_result,          \* the returned dict (None until the property returns)
    \* ---- filter_events applied to its own result ----
    tw_round,        \* 1 during the first application, 2 during the second
    tw_first,        \* what the first application returned (None before)
    \* ---- PolyTerminal.run_discovery_flow ----
    fl_pc,           \* "menu" | "filtering" | "left" | "raised"
    fl_events,       \* the local `events`
    current_view,    \* the local `current_view`
    fl_fetched,      \* history: what _fetch_events returned
    fl_last          \* history: the last menu action carried out

pageVars == <<pg_pc, limit, all_events, offset, current_limit,
              pg_requests, pg_pages, pg_failed, pg_result>>

searchVars == <<s_pc, enrich, search_results, events, enriched_events, task,
                fut, completed, s_result, s_exc, search_requests,
                detail_requests, detail_log, finish_order, search_log,
                slot_writes>>

filterVars == <<f_pc, f_events, min_vol, min_liquidity, volume_24hr_min,
                expiring_soon, search_query, now, f_i, filtered, f_result,
                f_exc>>

normVars == <<n_pc, data, n_node, n_exc>>

matchVars == <<m_pc, m_query, m_text, m_result>>

tokensVars == <<tk_pc, tk_outcomes, tk_clob_token_ids, tk_result>>

twiceVars == <<tw_round, tw_first>>

flowVars == <<fl_pc, fl_events, current_view, fl_fetched, fl_last>>

vars == <<pageVars, searchVars, filterVars, normVars, matchVars, tokensVars,
          twiceVars, flowVars>>

None == [kind |-> "None"]

Min(a, b) == IF a < b THEN a ELSE b

RECURSIVE Concat(_)
Concat(ss) == IF ss = <<>> THEN <<>> ELSE Head(ss) \o Concat(Tail(ss))

(***************************************************************************)
(* get_current_events                                                      *)
(***************************************************************************)
max_per_request == 500

\* Bounds of the paginated fetcher's inputs.
MaxCap == 3          \* small caps range over -1..MaxCap
MaxFullPages == 2    \* large caps span up to MaxFullPages full pages ...
MaxCapOver == 2      \* ... plus 0..MaxCapOver records
MaxOver == 1         \* a page may be up to MaxOver records longer than asked
MaxSmallPage == 2    \* page lengths 0..MaxSmallPage are always tried

Caps == (-1 .. MaxCap) \cup
        {m * max_per_request + k : m \in 1 .. MaxFullPages, k \in 0 .. MaxCapOver}

\* The lengths a page answering a request for cl records is given here:
\* the short ones, and the ones around the requested size.
PageLens(cl) ==
    {n \in 0 .. (cl + MaxOver) : n <= MaxSmallPage \/ n >= cl - 1}

\* The n records of a page: the listing endpoint's records are told apart
\* by a serial number, continuing after the `have` records already received.
Page(have, n) == [j \in 1 .. n |-> have + j]

PageIdle ==
    /\ pg_pc = "idle" /\ limit = 0 /\ all_events = <<>> /\ offset = 0
    /\ current_limit = 0 /\ pg_requests = <<>> /\ pg_pages = <<>>
    /\ pg_failed = FALSE /\ pg_result = None

SearchIdle ==
    /\ s_pc = "idle" /\ enrich = FALSE /\ search_results = <<>> /\ events = <<>>
    /\ enriched_events = <<>> /\ task = <<>> /\ fut = <<>> /\ completed = 0
    /\ s_result = None /\ s_exc = "none" /\ search_requests = 0
    /\ detail_requests = <<>> /\ detail_log = <<>> /\ finish_order = <<>>
    /\ search_log = "pending" /\ slot_writes = <<>>

FilterIdle ==
    /\ f_pc = "idle" /\ f_events = <<>> /\ min_vol = None
    /\ min_liquidity = None /\ volume_24hr_min = None
    /\ expiring_soon = FALSE /\ search_query = None /\ now = 0 /\ f_i = 0
    /\ filtered = <<>> /\ f_result = None /\ f_exc = "none"

NormIdle ==
    /\ n_pc = "idle" /\ data = None /\ n_node = None /\ n_exc = "none"

MatchIdle ==
    /\ m_pc = "idle" /\ m_query = <<>> /\ m_text = <<>> /\ m_result = None

TokensIdle ==
    /\ tk_pc = "idle" /\ tk_outcomes = <<>> /\ tk_clob_token_ids = <<>>
    /\ tk_result = None

TwiceIdle ==
    /\ tw_round = 0 /\ tw_first = None

FlowIdle ==
    /\ fl_pc = "idle" /\ fl_events = <<>> /\ current_view = <<>>
    /\ fl_fetched = <<>> /\ fl_last = "none"

NotPage ==
    <<searchVars, filterVars, normVars, matchVars,
      tokensVars, twiceVars, flowVars>>
NotSearch ==
    <<pageVars, filterVars, normVars, matchVars,
      tokensVars, twiceVars, flowVars>>
NotFilter ==
    <<pageVars, searchVars, normVars, matchVars,
      tokensVars, twiceVars, flowVars>>
NotNorm ==
    <<pageVars, searchVars, filterVars, matchVars,
      tokensVars, twiceVars, flowVars>>
NotMatch ==
    <<pageVars, searchVars, filterVars, normVars,
      tokensVars, twiceVars, flowVars>>
NotTokens ==
    <<pageVars, searchVars, filterVars, normVars,
      matchVars, twiceVars, flowVars>>
NotTwice ==
    <<pageVars, searchVars, filterVars, normVars,
      matchVars, tokensVars, flowVars>>
NotFlow ==
    <<pageVars, searchVars, filterVars, normVars,
      matchVars, tokensVars, twiceVars>>

PageInit ==
    /\ SearchIdle
    /\ FilterIdle
    /\ NormIdle
    /\ MatchIdle
    /\ TokensIdle
    /\ TwiceIdle
    /\ FlowIdle
    /\ pg_pc = "loop"
    /\ limit \in Caps
    /\ all_events = <<>>
    /\ offset = 0
    /\ current_limit = 0
    /\ pg_requests = <<>>
    /\ pg_pages = <<>>
    /\ pg_failed = FALSE
    /\ pg_result = None

\* while len(all_events) < limit: ... requests.get(url, params)
IssuePageRequest ==
    /\ pg_pc = "loop"
    /\ Len(all_events) < limit
    /\ LET remaining == limit - Len(all_events)
           cl == Min(remaining, max_per_request)
       IN /\ current_limit' = cl
          /\ pg_requests' = Append(pg_requests, [limit |-> cl, offset |-> offset])
    /\ pg_pc' = "await"
    /\ UNCHANGED <<limit, all_events, offset, pg_pages, pg_failed, pg_result>>
    /\ UNCHANGED NotPage

\* The loop condition is false: return all_events.
PageLoopExit ==
    /\ pg_pc = "loop"
    /\ ~(Len(all_events) < limit)
    /\ pg_pc' = "done"
    /\ pg_result' = all_events
    /\ UNCHANGED <<limit, all_events, offset, current_limit,
                   pg_requests, pg_pages, pg_failed>>
    /\ UNCHANGED NotPage

\* What the loop body does with a received page.
ExtendWith(acc, batch) == acc \o batch

\* Mutant of NextOffset: the offset advances by the size asked for.
NextOffset_ByRequested(off, batch, cl) == off + cl

\* offset += len(batch)
NextOffset(off, batch, cl) == off + Len(batch)

\* Mutant of PageBreaks: no page ends the loop.
PageBreaks_Never(batch, cl) == FALSE

\* Mutant of PageBreaks: only an empty page ends the loop.
PageBreaks_OnlyEmpty(batch, cl) == Len(batch) = 0

\* if not batch or len(batch) == 0: break ... if len(batch) < current_limit: break
PageBreaks(batch, cl) == Len(batch) = 0 \/ Len(batch) < cl

\* response.json() gave `batch`: an empty page ends the loop, a page is
\* appended, a short page ends the loop, otherwise the offset advances.
ReceivePage ==
    /\ pg_pc = "await"
    /\ \E n \in PageLens(current_limit) :
        LET batch == Page(Len(all_events), n)
            acc == IF Len(batch) = 0 THEN all_events
                   ELSE ExtendWith(all_events, batch)
        IN /\ pg_pages' = Append(pg_pages, batch)
           /\ all_events' = acc
           /\ IF PageBreaks(batch, current_limit)
              THEN /\ pg_pc' = "done"
                   /\ pg_result' = acc
                   /\ offset' = offset
              ELSE /\ pg_pc' = "loop"
                   /\ pg_result' = pg_result
                   /\ offset' = NextOffset(offset, batch, current_limit)
    /\ UNCHANGED <<limit, current_limit, pg_requests, pg_failed>>
    /\ UNCHANGED NotPage

\* Mutant of OnPageException: the handler drops what was accumulated.
OnPageException_Drop(acc) == <<>>

\* except requests.exceptions.RequestException: return all_events
OnPageException(acc) == acc

\* requests.get or raise_for_status raised a RequestException:
\* the handler returns what was accumulated.
PageRequestFails ==
    /\ pg_pc = "await"
    /\ pg_failed' = TRUE
    /\ pg_pc' = "done"
    /\ pg_result' = OnPageException(all_events)
    /\ UNCHANGED <<limit, all_events, offset, current_limit,
                   pg_requests, pg_pages>>
    /\ UNCHANGED NotPage

PageNext ==
    \/ IssuePageRequest
    \/ PageLoopExit
    \/ ReceivePage
    \/ PageRequestFails

SpecPage == PageInit /\ [][PageNext]_vars

\* C3: get_current_events returns at most `limit` records, whatever the
\* lengths of the pages the listing endpoint answers with (a negative cap,
\* which no list length can meet, is left out).
C3_AtMostCap ==
    (pg_pc = "done" /\ limit >= 0) => Len(pg_result) <= limit

\* C4: when the k-th page request fails, the call returns the concatenation,
\* in order, of the k-1 pages received before it (the empty list for k = 1).
C4_FailureReturnsAccumulated ==
    (pg_pc = "done" /\ pg_failed) =>
        /\ Len(pg_pages) = Len(pg_requests) - 1
        /\ pg_result = Concat(pg_pages)

\* A failure on the third request, after two pages were received.
C4_Witness ==
    /\ pg_pc = "done" /\ pg_failed
    /\ Len(pg_requests) = 3 /\ Len(pg_pages) = 2
    /\ Len(pg_result) > 0

\* C5: once a page is shorter than was requested for it, no further page
\* request is issued and the call returns everything accumulated, that page
\* included, even below the cap.
C5_ShortPageEndsLoop ==
    \A k \in 1 .. Len(pg_pages) :
        Len(pg_pages[k]) < pg_requests[k].limit =>
            /\ k = Len(pg_pages)
            /\ Len(pg_requests) = k
            /\ pg_pc = "done"
            /\ pg_result = Concat(pg_pages)

\* A second page that is short but not empty, the total below the cap.
C5_Witness ==
    /\ pg_pc = "done" /\ ~pg_failed
    /\ Len(pg_pages) = 2
    /\ Len(pg_pages[2]) > 0
    /\ Len(pg_pages[2]) < pg_requests[2].limit
    /\ Len(pg_result) < limit
    /\ pg_result = pg_pages[1] \o pg_pages[2]

\* The number of records of the first k pages received.
RECURSIVE ReceivedIn(_)
ReceivedIn(k) == IF k = 0 THEN 0 ELSE ReceivedIn(k - 1) + Len(pg_pages[k])

\* C21: the k-th page request asks for min(cap - records received so far,
\* 500) records at the offset of the records received so far, so the offset
\* advances from one request to the next by the length of the page that was
\* actually returned in between.
C21_RequestLimitAndOffset ==
    /\ \A k \in 1 .. Len(pg_requests) :
           /\ pg_requests[k].offset = ReceivedIn(k - 1)
           /\ pg_requests[k].limit =
                  (IF limit - ReceivedIn(k - 1) < 500
                   THEN limit - ReceivedIn(k - 1) ELSE 500)
    /\ \A k \in 2 .. Len(pg_requests) :
           pg_requests[k].offset - pg_requests[k - 1].offset = Len(pg_pages[k - 1])

\* A cap of 1002 and a first page of 501 records, one more than asked for:
\* the second request asks for 500 records at offset 501.
C21_Witness ==
    /\ limit = 1002
    /\ Len(pg_requests) = 2
    /\ pg_requests[1] = [limit |-> 500, offset |-> 0]
    /\ Len(pg_pages[1]) = 501
    /\ pg_requests[2] = [limit |-> 500, offset |-> 501]

\* C22: the loop of get_current_events cannot run forever.  With a cap of
\* zero or less no request is made; a page after which another request is
\* issued was full, so it added at least one record; hence at most `cap`
\* requests are issued.  Until the call has returned a step is always
\* possible: the loop test, or the end of the request in flight.
C22_LoopTerminates ==
    /\ limit <= 0 => pg_requests = <<>>
    /\ limit > 0 => Len(pg_requests) <= limit
    /\ \A k \in 1 .. Len(pg_requests) - 1 :
           /\ Len(pg_pages[k]) >= 1
           /\ ReceivedIn(k) > ReceivedIn(k - 1)
    /\ pg_pc = "loop" => Len(all_events) = ReceivedIn(Len(pg_pages))
    /\ pg_pc = "done" \/ ENABLED PageNext

\* A cap of 1002 met by three requests: two full pages and a last one.
C22_Witness ==
    /\ pg_pc = "done" /\ ~pg_failed
    /\ limit = 1002
    /\ Len(pg_requests) = 3
    /\ Len(pg_result) >= limit

(***************************************************************************)
(* search_events                                                           *)
(***************************************************************************)
MaxResults == 2      \* the search endpoint returns 0..MaxResults records

PoolCap == 5
DetailTimeout == 10

\* Raw records.  A search result carries its position in the endpoint's
\* answer as id; has_slug is whether event.get('slug') is truthy; title is
\* "str" for a string and "null" for a value that cannot be sliced.
Summary(k, hs, cl, ti) ==
    [kind |-> "summary", id |-> k, has_slug |-> hs, closed |-> cl, title |-> ti]
\* The JSON object the detail-by-slug endpoint answers with for record k.
Full(k, cl, ti) ==
    [kind |-> "full", id |-> k, has_slug |-> TRUE, closed |-> cl, title |-> ti]
\* A detail response whose JSON body is not an object (a list, null, ...).
NonDict(k) ==
    [kind |-> "nondict", id |-> k, has_slug |-> FALSE, closed |-> FALSE, title |-> "null"]
\* An empty JSON object.
EmptyDict ==
    [kind |-> "empty", id |-> 0, has_slug |-> FALSE, closed |-> FALSE, title |-> "absent"]

TitleKinds == {"str", "null"}

SummariesAt(k) ==
    {Summary(k, hs, cl, ti) : hs \in BOOLEAN, cl \in BOOLEAN, ti \in TitleKinds}

\* The lists the search endpoint can answer with.
SearchResponses ==
    UNION {{r \in [1 .. n -> UNION {SummariesAt(k) : k \in 1 .. n}] :
              \A k \in 1 .. n : r[k] \in SummariesAt(k)} : n \in 0 .. MaxResults}

\* The bodies a successful detail response for record k can carry.
DetailBodies(k) ==
    {Full(k, cl, ti) : cl \in BOOLEAN, ti \in TitleKinds} \cup {NonDict(k)}

\* Why a request can fail without the timeout: requests.get raising, or
\* raise_for_status on a non-2xx answer.
FailureKinds == {"ConnectionError", "HTTPError"}

\* Seconds a detail response may take.
Latencies == {0, DetailTimeout - 1, DetailTimeout, DetailTimeout + 1}

\* Mutant of DropClosed: closed results are kept.
DropClosed_Keep(rs) == rs

\* events = [e for e in events if not e.get("closed", False)]
DropClosed(rs) == SelectSeq(rs, LAMBDA e : ~e.closed)

\* Mutant of max_workers: one thread per event.
max_workers_Unbounded == Len(events)

\* max_workers = min(5, len(events))
max_workers == Min(PoolCap, Len(events))

Running == {i \in 1 .. Len(task) : task[i] = "running"}

Truthy(error) == error \notin {"none", ""}

SearchInit ==
    /\ PageIdle
    /\ FilterIdle
    /\ NormIdle
    /\ MatchIdle
    /\ TokensIdle
    /\ TwiceIdle
    /\ FlowIdle
    /\ s_pc = "start"
    /\ enrich \in BOOLEAN
    /\ search_results = <<>>
    /\ events = <<>>
    /\ enriched_events = <<>>
    /\ task = <<>>
    /\ fut = <<>>
    /\ completed = 0
    /\ s_result = None
    /\ s_exc = "none"
    /\ search_requests = 0
    /\ detail_requests = <<>>
    /\ detail_log = <<>>
    /\ finish_order = <<>>
    /\ search_log = "pending"
    /\ slot_writes = <<>>

\* An entry of the history detail_log: what the detail endpoint did.
Logged(outcome, body) == [outcome |-> outcome, body |-> body]

\* response = requests.get(url, params=params)
IssueSearchRequest ==
    /\ s_pc = "start"
    /\ s_pc' = "searching"
    /\ search_requests' = search_requests + 1
    /\ UNCHANGED <<enrich, search_results, events, enriched_events, task, fut,
                   completed, s_result, s_exc, detail_requests, detail_log,
                   finish_order>>
    /\ UNCHANGED <<search_log, slot_writes>>
    /\ UNCHANGED NotSearch

\* How the search request can fail: requests.get raising (no connection,
\* timeout), or raise_for_status on a non-2xx answer.
SearchFailureKinds == FailureKinds \cup {"Timeout"}

\* Mutant of OnSearchException: the handler returns None.
OnSearchException_None == None

\* except requests.exceptions.RequestException as e: ... return []
OnSearchException == <<>>

\* The search request raised a RequestException: return [].
SearchRequestFails ==
    /\ s_pc = "searching"
    /\ \E e \in SearchFailureKinds : search_log' = e
    /\ s_pc' = "returned"
    /\ s_result' = OnSearchException
    /\ UNCHANGED <<enrich, search_results, events, enriched_events, task, fut,
                   completed, s_exc, search_requests, detail_requests,
                   detail_log, finish_order>>
    /\ UNCHANGED slot_writes
    /\ UNCHANGED NotSearch

\* The search answered: closed results are dropped; without enrichment, or
\* with nothing left, the summaries are returned; otherwise the slots are
\* pre-allocated and one task per event is submitted to the pool.
ReceiveSearch(rs) ==
    /\ s_pc = "searching"
    /\ LET evs == DropClosed(rs)
            n == Len(evs)
        IN /\ search_results' = rs
           /\ events' = evs
           /\ IF ~enrich \/ evs = <<>>
              THEN /\ s_pc' = "returned"
                   /\ s_result' = evs
                   /\ UNCHANGED <<enriched_events, task, fut, detail_requests,
                                  detail_log, slot_writes>>
              ELSE /\ s_pc' = "enrich"
                   /\ s_result' = s_result
                   /\ enriched_events' = [i \in 1 .. n |-> None]
                   /\ task' = [i \in 1 .. n |-> "queued"]
                   /\ fut' = [i \in 1 .. n |-> None]
                   /\ detail_requests' = [i \in 1 .. n |-> 0]
                   /\ detail_log' = [i \in 1 .. n |-> Logged("pending", None)]
                   /\ slot_writes' = [i \in 1 .. n |-> <<>>]
    /\ search_log' = "ok"
    /\ UNCHANGED <<enrich, completed, s_exc, search_requests, finish_order>>
    /\ UNCHANGED NotSearch

\* The search answered with any of the lists tried.
ReceiveSearchResults == \E rs \in SearchResponses : ReceiveSearch(rs)

\* Mutant of Returned: every worker reports the first index.
Returned_FirstIndex(index, result, error) ==
    [index |-> 1, result |-> result, error |-> error]

\* What fetch_full_event returns: (index, result, error).
Returned(index, result, error) ==
    [index |-> index, result |-> result, error |-> error]

\* Mutant of OnDetailException: a failed fetch yields an empty record.
OnDetailException_Empty(index, event, e) == Returned(index, EmptyDict, e)

\* except Exception as e: return index, event, str(e)
OnDetailException(index, event, e) == Returned(index, event, e)

\* A pool thread takes the next queued task (the work queue is FIFO, at most
\* max_workers threads exist).  Without a slug fetch_full_event returns the
\* summary at once; otherwise it issues the detail request.
FetchFullEventStart(i) ==
    /\ s_pc \in {"enrich", "unwind"}
    /\ i \in 1 .. Len(task)
    /\ task[i] = "queued"
    /\ \A j \in 1 .. (i - 1) : task[j] # "queued"
    /\ Cardinality(Running) < max_workers
    /\ IF ~events[i].has_slug
       THEN /\ task' = [task EXCEPT ![i] = "done"]
            /\ fut' = [fut EXCEPT ![i] = Returned(i, events[i], "none")]
            /\ detail_log' = [detail_log EXCEPT ![i] = Logged("noslug", None)]
            /\ finish_order' = Append(finish_order, i)
            /\ UNCHANGED detail_requests
       ELSE /\ task' = [task EXCEPT ![i] = "running"]
            /\ detail_requests' = [detail_requests EXCEPT ![i] = @ + 1]
            /\ UNCHANGED <<fut, detail_log, finish_order>>
    /\ UNCHANGED <<s_pc, enrich, search_results, events, enriched_events,
                   completed, s_result, s_exc, search_requests>>
    /\ UNCHANGED <<search_log, slot_writes>>
    /\ UNCHANGED NotSearch

\* Mutant of AfterFetch: a failed fetch puts its task back in the queue.
AfterFetch_Retry(error) == IF Truthy(error) THEN "queued" ELSE "done"

\* fetch_full_event returns on both paths (with the body, or from the except
\* clause): the task's future is done whether or not the fetch failed.
AfterFetch(error) == "done"

\* The detail request of task i ends: in time with a JSON body, with a
\* transport or status failure, or by the timeout.
FetchFullEventFinish(i) ==
    /\ s_pc \in {"enrich", "unwind"}
    /\ i \in 1 .. Len(task)
    /\ task[i] = "running"
    /\ \E d \in Latencies :
        \/ /\ d < DetailTimeout
           /\ \E body \in DetailBodies(events[i].id) :
                /\ fut' = [fut EXCEPT ![i] = Returned(i, body, "none")]
                /\ detail_log' = [detail_log EXCEPT ![i] = Logged("ok", body)]
        \/ /\ d < DetailTimeout
           /\ \E e \in FailureKinds :
                /\ fut' = [fut EXCEPT ![i] = OnDetailException(i, events[i], e)]
                /\ detail_log' = [detail_log EXCEPT ![i] = Logged(e, None)]
        \/ /\ d >= DetailTimeout
           /\ fut' = [fut EXCEPT ![i] = OnDetailException(i, events[i], "Timeout")]
           /\ detail_log' = [detail_log EXCEPT ![i] = Logged("Timeout", None)]
    /\ task' = [task EXCEPT ![i] = AfterFetch(fut'[i].error)]
    /\ finish_order' = Append(finish_order, i)
    /\ UNCHANGED <<s_pc, enrich, search_results, events, enriched_events,
                   completed, s_result, s_exc, search_requests, detail_requests>>
    /\ UNCHANGED <<search_log, slot_writes>>
    /\ UNCHANGED NotSearch

\* Mutant of WriteBack: the result goes to the slot of its completion rank
\* (append-on-completion).
WriteBack_ByArrival(slots, index, result) ==
    LET rank == CHOOSE r \in 1 .. Len(finish_order) : finish_order[r] = index
    IN [slots EXCEPT ![rank] = result]

\* Mutant of WriteBack: the write to the last slot is lost.
WriteBack_LastLost(slots, index, result) ==
    IF index = Len(slots) THEN slots ELSE [slots EXCEPT ![index] = result]

\* enriched_events[index] = result
WriteBack(slots, index, result) == [slots EXCEPT ![index] = result]

\* The progress line: with an error, result.get('slug', 'unknown'); without,
\* result.get('title', 'Unknown')[:50], which raises AttributeError when the
\* result is not a dict and TypeError when the title cannot be sliced.
PrintException(result, error) ==
    IF Truthy(error) THEN "none"
    ELSE IF result.kind = "nondict" THEN "AttributeError"
    ELSE IF result.title = "null" THEN "TypeError"
    ELSE "none"

\* An entry of the history slot_writes: the thread that made the write and
\* the task whose future it was reading.
Written(thread, t) == [thread |-> thread, task |-> t]

\* for future in futures: index, result, error = future.result() ...
\* The futures are read in submission order; result() blocks until the
\* future is done.  After the last one the list is returned.  An exception
\* of the progress line is no RequestException: it leaves the loop.
CollectFuture ==
    /\ s_pc = "enrich"
    /\ completed < Len(events)
    /\ task[completed + 1] = "done"
    /\ LET f == fut[completed + 1]
           slots == WriteBack(enriched_events, f.index, f.result)
           exc == PrintException(f.result, f.error)
       IN /\ enriched_events' = slots
          /\ slot_writes' =
                [slot_writes EXCEPT
                    ![f.index] = Append(@, Written("caller", completed + 1))]
          /\ completed' = completed + 1
          /\ IF exc # "none"
             THEN /\ s_pc' = "unwind"
                  /\ s_exc' = exc
                  /\ s_result' = s_result
             ELSE IF completed + 1 = Len(events)
             THEN /\ s_pc' = "returned"
                  /\ s_exc' = s_exc
                  /\ s_result' = slots
             ELSE /\ UNCHANGED <<s_pc, s_exc, s_result>>
    /\ UNCHANGED <<enrich, search_results, events, task, fut, search_requests,
                   detail_requests, detail_log, finish_order>>
    /\ UNCHANGED search_log
    /\ UNCHANGED NotSearch

\* The with-block is left by the exception: executor.shutdown(wait=True)
\* waits for every submitted task, then the exception escapes the call.
ExecutorExitRaises ==
    /\ s_pc = "unwind"
    /\ \A i \in 1 .. Len(task) : task[i] = "done"
    /\ s_pc' = "raised"
    /\ UNCHANGED <<enrich, search_results, events, enriched_events, task, fut,
                   completed, s_result, s_exc, search_requests,
                   detail_requests, detail_log, finish_order>>
    /\ UNCHANGED <<search_log, slot_writes>>
    /\ UNCHANGED NotSearch

SearchNext ==
    \/ IssueSearchRequest
    \/ SearchRequestFails
    \/ ReceiveSearchResults
    \/ \E i \in 1 .. MaxResults : FetchFullEventStart(i)
    \/ \E i \in 1 .. MaxResults : FetchFullEventFinish(i)
    \/ CollectFuture
    \/ ExecutorExitRaises

SpecSearch == SearchInit /\ [][SearchNext]_vars

\* The call returned from the enrichment path.
ReturnedEnriched == s_pc = "returned" /\ enrich /\ events # <<>>

\* Record r is the record of search result e: its retained summary, or the
\* detail response fetched for it.
BelongsTo(r, e) == r = e \/ (r.kind \in {"full", "nondict"} /\ r.id = e.id)

\* C1: whatever the order in which the detail fetches complete, position i
\* of the returned list holds the record (full detail or retained summary)
\* of the i-th non-closed search result.
C1_OutputOrderIsInputOrder ==
    ReturnedEnriched =>
        /\ Len(s_result) = Len(events)
        /\ \A i \in 1 .. Len(events) : BelongsTo(s_result[i], events[i])

\* Two fetches that completed in the reverse of the submission order, both
\* with a full record.
C1_Witness ==
    /\ ReturnedEnriched
    /\ Len(events) = 2
    /\ finish_order = <<2, 1>>
    /\ s_result[1].kind = "full" /\ s_result[2].kind = "full"

\* What position k must hold, given only what happened to record k.
ExpectedAt(k) ==
    IF detail_log[k].outcome = "ok" THEN detail_log[k].body ELSE events[k]

\* C2: a record whose detail fetch failed (transport error, non-2xx status or
\* timeout) keeps its summary at its position, and every position holds what
\* its own fetch decides, whatever happened to the others.
C2_FailureIsolation ==
    ReturnedEnriched =>
        \A k \in 1 .. Len(events) :
            /\ detail_log[k].outcome \in FailureKinds \cup {"Timeout"} =>
                   s_result[k] = events[k]
            /\ s_result[k] = ExpectedAt(k)

\* The first fetch timed out, the second one succeeded.
C2_Witness ==
    /\ ReturnedEnriched
    /\ Len(events) = 2
    /\ detail_log[1].outcome = "Timeout"
    /\ detail_log[2].outcome = "ok"
    /\ s_result[1] = events[1]
    /\ s_result[2].kind = "full"

\* C14: when the search request fails (no connection, timeout, non-2xx
\* status) the call has returned the empty list, nothing was raised and no
\* detail request was issued.
C14_SearchFailureReturnsEmpty ==
    search_log \in {"ConnectionError", "Timeout", "HTTPError"} =>
        /\ s_pc = "returned"
        /\ s_exc = "none"
        /\ s_result = <<>>
        /\ \A i \in 1 .. Len(detail_requests) : detail_requests[i] = 0

\* An enriching call whose search request was answered with a non-2xx status.
C14_Witness ==
    /\ enrich
    /\ search_requests = 1
    /\ search_log = "HTTPError"
    /\ s_pc = "returned"
    /\ s_result = <<>>

\* C15: once the search request has succeeded the call never raises,
\* whatever each record's fetch does: no slug, transport failure, non-2xx
\* status, timeout, or a successful response with any JSON body and title.
C15_EnrichmentNeverRaises ==
    search_log = "ok" => (s_pc # "raised" /\ s_exc = "none")

\* The positions of the search results that are not closed.
OpenPositions == {k \in 1 .. Len(search_results) : ~search_results[k].closed}

\* A detail request was issued for the search result at position k.
DetailRequestedFor(k) ==
    \E i \in 1 .. Len(detail_requests) :
        detail_requests[i] > 0 /\ events[i].id = search_results[k].id

\* C16: a call issues exactly one search request; the results whose closed
\* flag is true are dropped before anything else, so the returned list is as
\* long as the number of results that are not closed and no detail request
\* is issued for a closed result.
C16_OneSearchClosedDropped ==
    /\ search_requests <= 1
    /\ s_pc \in {"returned", "raised"} => search_requests = 1
    /\ (s_pc = "returned" /\ search_log = "ok") =>
           Len(s_result) = Cardinality(OpenPositions)
    /\ \A k \in 1 .. Len(search_results) :
           search_results[k].closed => ~DetailRequestedFor(k)

\* A closed result followed by an open one, both with a slug: one record
\* returned, one detail request, for the second result.
C16_Witness ==
    /\ s_pc = "returned" /\ enrich /\ search_requests = 1
    /\ Len(search_results) = 2
    /\ search_results[1].closed /\ search_results[1].has_slug
    /\ ~search_results[2].closed /\ search_results[2].has_slug
    /\ Len(s_result) = 1
    /\ detail_requests = <<1>>
    /\ DetailRequestedFor(2)

\* The call ended, by returning or by raising, after submitting its tasks.
EndedEnriching ==
    s_pc \in {"returned", "raised"} /\ search_log = "ok" /\ enrich /\ events # <<>>

\* C19: a result that is not closed gets at most one detail request, none
\* when it has no slug; when the call ends, every result with a slug has had
\* exactly one, whatever happened to the others, and every worker has
\* finished.
C19_OneAttemptEachAndJoin ==
    /\ \A i \in 1 .. Len(detail_requests) :
           /\ detail_requests[i] <= 1
           /\ ~events[i].has_slug => detail_requests[i] = 0
    /\ EndedEnriching =>
           \A i \in 1 .. Len(events) :
               /\ events[i].has_slug => detail_requests[i] = 1
               /\ task[i] = "done"
               /\ detail_log[i].outcome # "pending"

\* Two results with a slug: the first fetch failed, the second succeeded,
\* one request each.
C19_Witness ==
    /\ s_pc = "returned" /\ enrich
    /\ Len(events) = 2
    /\ events[1].has_slug /\ events[2].has_slug
    /\ detail_log[1].outcome = "ConnectionError"
    /\ detail_log[2].outcome = "ok"
    /\ detail_requests = <<1, 1>>

\* Every write made so far went to a slot not written before.
NoSlotWrittenTwice == \A i \in 1 .. Len(slot_writes) : Len(slot_writes[i]) <= 1

\* When the call has returned the enriched list, every slot has been written.
AllSlotsWrittenOnReturn ==
    ReturnedEnriched => \A i \in 1 .. Len(slot_writes) : Len(slot_writes[i]) = 1

\* C20 as stated: every slot is written exactly once, and the thread that
\* writes slot i is the worker running the task of index i.
C20_SlotWrittenByOwningWorker ==
    /\ NoSlotWrittenTwice
    /\ AllSlotsWrittenOnReturn
    /\ \A i \in 1 .. Len(slot_writes) :
           \A w \in 1 .. Len(slot_writes[i]) :
               slot_writes[i][w] = Written("worker", i)

\* C20 amended: every slot is written at most once, exactly once when the
\* call returns, always by the calling thread from its collection loop, with
\* the result the task of the same index returned; the workers write no slot.
C20_SlotWrittenOnceByCaller ==
    /\ NoSlotWrittenTwice
    /\ AllSlotsWrittenOnReturn
    /\ \A i \in 1 .. Len(slot_writes) :
           \A w \in 1 .. Len(slot_writes[i]) :
               /\ slot_writes[i][w] = Written("caller", i)
               /\ task[i] = "done"
               /\ enriched_events[i] = fut[i].result

\* Two workers that finished in the reverse of the submission order; each
\* slot has its one write.
C20_Witness ==
    /\ ReturnedEnriched
    /\ finish_order = <<2, 1>>
    /\ slot_writes = <<(<<Written("caller", 1)>>), (<<Written("caller", 2)>>)>>
    /\ detail_log[1].outcome = "ok" /\ detail_log[2].outcome = "HTTPError"

\* C25: when the call returns from the enrichment path, the returned list has
\* one entry per search result that is not closed, and every position holds
\* a record: none still holds the None it was pre-allocated with.
C25_NoPlaceholderReturned ==
    ReturnedEnriched =>
        /\ Len(s_result) = Cardinality(OpenPositions)
        /\ \A i \in 1 .. Len(s_result) :
               /\ s_result[i] # None
               /\ s_result[i].kind \in {"summary", "full"}

\* Two open results, the first without a slug, the second answered with a
\* non-2xx status: both positions hold the summaries.
C25_Witness ==
    /\ ReturnedEnriched
    /\ Len(search_results) = 2 /\ Len(s_result) = 2
    /\ detail_log[1].outcome = "noslug"
    /\ detail_log[2].outcome = "HTTPError"
    /\ s_result = events

\* C26: no record of the returned list has a true closed flag, with and
\* without enrichment, whatever the detail endpoint answered.
C26_NoClosedRecordReturned ==
    s_pc = "returned" =>
        \A i \in 1 .. Len(s_result) : ~s_result[i].closed

\* ---- the worker pool under more results than threads ----
MaxPoolResults == 6  \* the search endpoint returns 0..MaxPoolResults records

\* Open results with a string title; all carry a slug, or all but the first.
PoolResponses ==
    {[k \in 1 .. n |-> Summary(k, k > 1 \/ hs, FALSE, "str")] :
        n \in 0 .. MaxPoolResults, hs \in BOOLEAN}

PoolInit ==
    /\ SearchInit
    /\ enrich

PoolReceive == \E rs \in PoolResponses : ReceiveSearch(rs)

\* The detail request of task i ends in time with the record's full body;
\* the first one may also end by the timeout.
PoolFetchFinish(i) ==
    /\ FetchFullEventFinish(i)
    /\ \/ detail_log'[i] = Logged("ok", Full(events[i].id, FALSE, "str"))
       \/ (i = 1 /\ detail_log'[i].outcome = "Timeout")

PoolNext ==
    \/ IssueSearchRequest
    \/ PoolReceive
    \/ \E i \in 1 .. MaxPoolResults : FetchFullEventStart(i)
    \/ \E i \in 1 .. MaxPoolResults : PoolFetchFinish(i)
    \/ CollectFuture

SpecPool == PoolInit /\ [][PoolNext]_vars

\* The detail requests issued and not yet ended.
InFlight ==
    {i \in 1 .. Len(detail_requests) :
        detail_requests[i] > 0 /\ detail_log[i].outcome = "pending"}

\* C18: at any moment the number of detail requests in flight is at most
\* min(5, N), N being the number of search results that are not closed.
C18_InFlightWithinPool ==
    /\ Cardinality(InFlight) <= 5
    /\ Cardinality(InFlight) <= Cardinality(OpenPositions)

\* Six results with a slug: five requests in flight, the sixth task waiting.
C18_Witness ==
    /\ Cardinality(OpenPositions) = 6
    /\ Cardinality(InFlight) = 5
    /\ task[6] = "queued"

(***************************************************************************)
(* is_match                                                                *)
(*                                                                         *)
(* A string is a sequence of one-character strings.                        *)
(***************************************************************************)
\* str.lower() on one character.
LowerChar(c) ==
    CASE c = "A" -> "a"
      [] c = "B" -> "b"
      [] c = "C" -> "c"
      [] OTHER -> c

\* str.lower()
Lower(str) == [i \in 1 .. Len(str) |-> LowerChar(str[i])]

\* query in text
IsSubstring(q, text) ==
    \E i \in 0 .. (Len(text) - Len(q)) :
        \A k \in 1 .. Len(q) : text[i + k] = q[k]

\* Length of the longest common run of a from i and b from j (1-based),
\* staying below ahi and bhi (exclusive bounds, as in difflib).
RECURSIVE RunLen(_, _, _, _, _, _)
RunLen(a, b, i, j, ahi, bhi) ==
    IF i < ahi /\ j < bhi /\ a[i] = b[j]
    THEN 1 + RunLen(a, b, i + 1, j + 1, ahi, bhi)
    ELSE 0

\* SequenceMatcher.find_longest_match(alo, ahi, blo, bhi) without junk: the
\* longest matching block, of those the one starting earliest in a, of those
\* the one starting earliest in b.  Positions are 1-based, bounds exclusive.
FindLongestMatch(a, b, alo, ahi, blo, bhi) ==
    LET Cands == {<<i, j>> \in (alo .. ahi - 1) \X (blo .. bhi - 1) : a[i] = b[j]}
        Size(c) == RunLen(a, b, c[1], c[2], ahi, bhi)
    IN IF Cands = {} THEN [i |-> alo, j |-> blo, size |-> 0]
       ELSE LET best == CHOOSE c \in Cands :
                    \A d \in Cands :
                        \/ Size(c) > Size(d)
                        \/ /\ Size(c) = Size(d)
                           /\ \/ c[1] < d[1]
                              \/ (c[1] = d[1] /\ c[2] <= d[2])
            IN [i |-> best[1], j |-> best[2], size |-> Size(best)]

\* Sum of the sizes of SequenceMatcher.get_matching_blocks(): the longest
\* match, then recursively the pieces to its left and to its right.
RECURSIVE MatchedChars(_, _, _, _, _, _)
MatchedChars(a, b, alo, ahi, blo, bhi) ==
    LET m == FindLongestMatch(a, b, alo, ahi, blo, bhi)
    IN IF m.size = 0 THEN 0
       ELSE m.size
            + MatchedChars(a, b, alo, m.i, blo, m.j)
            + MatchedChars(a, b, m.i + m.size, ahi, m.j + m.size, bhi)

\* The default value of is_match's threshold, 0.4, as a fraction.
ThresholdNum == 4
ThresholdDen == 10

\* Mutant of RatioExceeds: a ratio equal to the threshold matches too.
RatioExceeds_AtLeast(a, b) ==
    2 * MatchedChars(a, b, 1, Len(a) + 1, 1, Len(b) + 1) * ThresholdDen
        >= ThresholdNum * (Len(a) + Len(b))

\* SequenceMatcher(None, a, b).ratio() > threshold, where
\* ratio = 2.0 * matches / (len(a) + len(b)) and both strings are non-empty.
RatioExceeds(a, b) ==
    2 * MatchedChars(a, b, 1, Len(a) + 1, 1, Len(b) + 1) * ThresholdDen
        > ThresholdNum * (Len(a) + Len(b))

is_match(query, text) ==
    IF Len(query) = 0 \/ Len(text) = 0 THEN FALSE
    ELSE LET q == Lower(query)
             t == Lower(text)
         IN IF IsSubstring(q, t) THEN TRUE ELSE RatioExceeds(q, t)

\* ---- is_match called on its own ----
MaxQueryLen == 2     \* queries of 0..MaxQueryLen characters
MaxTextLen == 3      \* texts of 0..MaxTextLen characters

Alphabet == {"a", "b", "c", "A"}

StringsUpTo(n) == UNION {[1 .. k -> Alphabet] : k \in 0 .. n}

MatchInit ==
    /\ PageIdle
    /\ SearchIdle
    /\ FilterIdle
    /\ NormIdle
    /\ TokensIdle
    /\ TwiceIdle
    /\ FlowIdle
    /\ m_pc = "call"
    /\ m_query \in StringsUpTo(MaxQueryLen)
    /\ m_text \in StringsUpTo(MaxTextLen)
    /\ m_result = None

\* is_match(query, text)
IsMatchCall ==
    /\ m_pc = "call"
    /\ m_result' = is_match(m_query, m_text)
    /\ m_pc' = "returned"
    /\ UNCHANGED <<m_query, m_text>>
    /\ UNCHANGED NotMatch

MatchNext ==
    \/ IsMatchCall

SpecMatch == MatchInit /\ [][MatchNext]_vars

\* The characters SequenceMatcher matches between the lowercased strings.
Matched(q, t) ==
    MatchedChars(Lower(q), Lower(t), 1, Len(q) + 1, 1, Len(t) + 1)

\* C17: is_match is false when the query or the text is empty; otherwise
\* true when the lowercased query occurs in the lowercased text; otherwise
\* true exactly when the ratio 2 * matched / (len(query) + len(text)) of the
\* lowercased strings is strictly greater than 0.4 = 2/5.
C17_IsMatchDecision ==
    m_pc = "returned" =>
        /\ (m_query = <<>> \/ m_text = <<>>) => m_result = FALSE
        /\ (m_query # <<>> /\ m_text # <<>>
              /\ IsSubstring(Lower(m_query), Lower(m_text))) => m_result = TRUE
        /\ (m_query # <<>> /\ m_text # <<>>
              /\ ~IsSubstring(Lower(m_query), Lower(m_text))) =>
               (m_result = TRUE <=>
                   5 * Matched(m_query, m_text) > Len(m_query) + Len(m_text))

\* "ab" against "bca": one matched character of five, a ratio of exactly
\* 0.4, no match.
C17_Witness ==
    /\ m_pc = "returned"
    /\ m_query = <<"a", "b">>
    /\ m_text = <<"b", "c", "a">>
    /\ Matched(m_query, m_text) = 1
    /\ m_result = FALSE

(***************************************************************************)
(* filter_events                                                           *)
(***************************************************************************)
Some(v) == [kind |-> "some", v |-> v]
IsSome(x) == x.kind = "some"

\* The window of the expiring-soon criterion, in hours.
ExpiryWindow == 48

\* An end-date string: its format and the instant it denotes, in hours.
\*   "Z"       ISO-8601 with a trailing Z
\*   "offset"  ISO-8601 with a numeric UTC offset
\*   "naive"   ISO-8601 without any offset (date only, or date and time)
\*   "garbage" not ISO-8601, e.g. "None", the str() of a missing endDate
EndDate(fmt, t) == [fmt |-> fmt, t |-> t]

\* m.end_date.replace("Z", "+00:00")
ReplaceZ(d) == IF d.fmt = "Z" THEN EndDate("offset", d.t) ELSE d

\* datetime.fromisoformat: an aware datetime, a naive one, or ValueError.
FromIsoFormat(d) ==
    CASE d.fmt = "offset" -> [kind |-> "aware", t |-> d.t]
      [] d.fmt = "naive" -> [kind |-> "naive", t |-> d.t]
      [] OTHER -> [kind |-> "ValueError", t |-> 0]

\* Mutant of InWindow: the upper bound is included.
InWindow_Closed(time_left) == 0 < time_left /\ time_left <= ExpiryWindow

\* timedelta(hours=0) < time_left < timedelta(hours=48)
InWindow(time_left) == 0 < time_left /\ time_left < ExpiryWindow

\* The loop over e.markets of the expiring-soon criterion, in order: "yes"
\* at the first market in the window (break), "no" at the end of the list,
\* "TypeError" when end_dt - now subtracts the aware now from a naive
\* end_dt, which the handler (ValueError, AttributeError) does not catch.
RECURSIVE ExpiringScan(_, _)
ExpiringScan(ms, t_now) ==
    IF ms = <<>> THEN "no"
    ELSE LET end_dt == FromIsoFormat(ReplaceZ(Head(ms).end_date))
         IN IF end_dt.kind = "ValueError" THEN ExpiringScan(Tail(ms), t_now)
            ELSE IF end_dt.kind = "naive" THEN "TypeError"
            ELSE IF InWindow(end_dt.t - t_now) THEN "yes"
            ELSE ExpiringScan(Tail(ms), t_now)

RECURSIVE MaxOf(_)
MaxOf(xs) ==
    IF Len(xs) = 1 THEN xs[1]
    ELSE LET r == MaxOf(Tail(xs)) IN IF xs[1] >= r THEN xs[1] ELSE r

\* Mutant of MaxMarketLiq: the smallest liquidity instead of the largest.
MaxMarketLiq_Min(ms) ==
    IF ms = <<>> THEN 0
    ELSE -MaxOf([k \in 1 .. Len(ms) |-> -ms[k].liquidity])

\* max([m.liquidity for m in e.markets]) if e.markets else 0
MaxMarketLiq(ms) ==
    IF ms = <<>> THEN 0
    ELSE MaxOf([k \in 1 .. Len(ms) |-> ms[k].liquidity])

\* match_title or match_market
TextMatches(q, e) ==
    \/ is_match(q, e.title)
    \/ \E k \in 1 .. Len(e.markets) : is_match(q, e.markets[k].question)

\* The body of the loop for one event: "keep" (appended), "skip" (continue)
\* or the exception that escapes.  The criteria are tried in the code's
\* order; the first one that fails ends the iteration.
Examine(e) ==
    IF IsSome(search_query) /\ Len(search_query.v) > 0
       /\ ~TextMatches(search_query.v, e)
    THEN "skip"
    ELSE IF IsSome(min_vol) /\ e.volume < min_vol.v THEN "skip"
    ELSE IF IsSome(volume_24hr_min) /\ e.volume_24hr < volume_24hr_min.v
    THEN "skip"
    ELSE IF IsSome(min_liquidity)
            /\ MaxMarketLiq(e.markets) < min_liquidity.v
    THEN "skip"
    ELSE IF expiring_soon
    THEN LET r == ExpiringScan(e.markets, now)
         IN IF r = "yes" THEN "keep" ELSE IF r = "no" THEN "skip" ELSE r
    ELSE "keep"

\* Mutant of Keep: the event is put in front.
Keep_InFront(acc, e) == <<e>> \o acc

\* Mutant of Keep: the event is appended twice.
Keep_Twice(acc, e) == Append(Append(acc, e), e)

\* filtered.append(e)
Keep(acc, e) == Append(acc, e)

\* ---- the inputs of filter_events ----
MaxEvents == 2       \* the events argument holds 0..MaxEvents events

Market(q, liq, d) == [question |-> q, liquidity |-> liq, end_date |-> d]
Event(ti, v, v24, ms) ==
    [title |-> ti, volume |-> v, volume_24hr |-> v24, markets |-> ms]

Q_ab == <<"a", "b">>            \* the query
T_sub == <<"x", "A", "b">>      \* holds the query, ignoring case
T_fuzzy == <<"a", "c", "b">>    \* ratio 0.8 with the query
T_edge == <<"b", "c", "a">>     \* ratio exactly 0.4 with the query
T_none == <<"c", "c">>          \* ratio 0 with the query
T_empty == <<>>

Nows == {100}

\* A market that passes the liquidity and the expiry criterion of every
\* criteria set below and whose question does not match the query.
M_base == Market(T_none, 8000, EndDate("Z", 147))
M_liq(l) == Market(T_none, l, EndDate("Z", 147))
M_end(d) == Market(T_none, 8000, d)
M_q(q) == Market(q, 8000, EndDate("Z", 147))

\* The market lists tried: varying the liquidities, the end dates, the
\* questions.
MarketLists ==
    {<<>>, <<M_base>>}
    \cup {<<M_liq(10), M_liq(8000)>>, <<M_liq(8000), M_liq(10)>>,
          <<M_liq(10), M_liq(20)>>, <<M_liq(5000)>>}
    \cup {<<M_end(EndDate("Z", t))>> : t \in {99, 100, 148, 149}}
    \cup {<<M_end(EndDate("offset", 147))>>, <<M_end(EndDate("garbage", 0))>>,
          <<M_end(EndDate("naive", 147))>>}
    \cup {<<M_end(EndDate("garbage", 0)), M_base>>,
          <<M_base, M_end(EndDate("naive", 147))>>,
          <<M_end(EndDate("naive", 147)), M_base>>}

\* The events tried: one that passes every criterion, and that event with
\* its title, its volumes or its markets changed.
EventUniverse ==
    {Event(ti, 500, 50, <<M_base>>) : ti \in {T_sub, T_edge, T_empty}}
    \cup {Event(T_none, 500, 50, <<M_base, M_q(T_fuzzy)>>)}
    \cup {Event(T_sub, 100, 50, <<M_base>>), Event(T_sub, 500, 10, <<M_base>>)}
    \cup {Event(T_sub, 500, 50, ms) : ms \in MarketLists}

EventLists ==
    UNION {[1 .. n -> EventUniverse] : n \in 0 .. MaxEvents}

FilterInit ==
    /\ PageIdle
    /\ SearchIdle
    /\ NormIdle
    /\ MatchIdle
    /\ TokensIdle
    /\ TwiceIdle
    /\ FlowIdle
    /\ f_pc = "loop"
    /\ f_events \in EventLists
    /\ min_vol \in {None, Some(500)}
    /\ min_liquidity \in {None, Some(5000)}
    /\ volume_24hr_min \in {None, Some(50)}
    /\ expiring_soon \in BOOLEAN
    /\ search_query \in {None, Some(T_empty), Some(Q_ab)}
    /\ now \in Nows
    /\ f_i = 0
    /\ filtered = <<>>
    /\ f_result = None
    /\ f_exc = "none"

\* One iteration of `for e in events`.
FilterStep ==
    /\ f_pc = "loop"
    /\ f_i < Len(f_events)
    /\ LET e == f_events[f_i + 1]
           r == Examine(e)
       IN /\ f_i' = f_i + 1
          /\ filtered' = IF r = "keep" THEN Keep(filtered, e) ELSE filtered
          /\ IF r \in {"keep", "skip"}
             THEN UNCHANGED <<f_pc, f_exc>>
             ELSE /\ f_pc' = "raised"
                  /\ f_exc' = r
    /\ UNCHANGED <<f_events, min_vol, min_liquidity, volume_24hr_min,
                   expiring_soon, search_query, now, f_result>>
    /\ UNCHANGED NotFilter

\* return filtered
FilterReturn ==
    /\ f_pc = "loop"
    /\ f_i = Len(f_events)
    /\ f_pc' = "returned"
    /\ f_result' = filtered
    /\ UNCHANGED <<f_events, min_vol, min_liquidity, volume_24hr_min,
                   expiring_soon, search_query, now, f_i, filtered, f_exc>>
    /\ UNCHANGED NotFilter

FilterNext ==
    \/ FilterStep
    \/ FilterReturn

SpecFilter == FilterInit /\ [][FilterNext]_vars

\* ---- the criteria, stated on their own ----
Range(f) == {f[i] : i \in DOMAIN f}
InOutput(e) == e \in Range(f_result)

TextOK(e) ==
    (IsSome(search_query) /\ search_query.v # <<>>) =>
        \/ is_match(search_query.v, e.title)
        \/ \E m \in Range(e.markets) : is_match(search_query.v, m.question)
VolumeOK(e) == IsSome(min_vol) => e.volume >= min_vol.v
Volume24OK(e) == IsSome(volume_24hr_min) => e.volume_24hr >= volume_24hr_min.v
LiquidityOK(e) ==
    IsSome(min_liquidity) =>
        IF e.markets = <<>> THEN 0 >= min_liquidity.v
        ELSE \E m \in Range(e.markets) : m.liquidity >= min_liquidity.v
\* The instant an end-date string denotes, when it denotes one that can be
\* compared with now.
Denotes(d) == d.fmt \in {"Z", "offset"}
HasMarketEndingSoon(e) ==
    \E m \in Range(e.markets) :
        /\ Denotes(m.end_date)
        /\ now < m.end_date.t
        /\ m.end_date.t < now + 48
ExpiryOK(e) == expiring_soon => HasMarketEndingSoon(e)

PassesAll(e) ==
    TextOK(e) /\ VolumeOK(e) /\ Volume24OK(e) /\ LiquidityOK(e) /\ ExpiryOK(e)

\* C6: the returned list is the input with exactly the events removed that
\* fail a supplied criterion, in the input's order.
C6_FilterIsConjunction ==
    f_pc = "returned" => f_result = SelectSeq(f_events, PassesAll)

\* Two events pass all five criteria, supplied together, and come back in
\* the input's order.
C6_Witness ==
    /\ f_pc = "returned"
    /\ IsSome(search_query) /\ search_query.v # <<>> /\ IsSome(min_vol)
    /\ IsSome(volume_24hr_min) /\ IsSome(min_liquidity) /\ expiring_soon
    /\ Len(f_events) = 2 /\ f_events[1] # f_events[2]
    /\ f_result = f_events

\* C7: with the expiring-soon flag set, no end-date string makes
\* filter_events raise.
C7_EndDateNeverRaises ==
    f_pc # "raised"

C9_LiquidityUsesMax ==
    (f_pc = "returned" /\ IsSome(min_liquidity)) =>
        \A e \in Range(f_events) :
            LET ok == IF e.markets = <<>> THEN 0 >= min_liquidity.v
                      ELSE \E m \in Range(e.markets) :
                               /\ m.liquidity >= min_liquidity.v
                               /\ \A o \in Range(e.markets) :
                                      o.liquidity <= m.liquidity
            IN /\ InOutput(e) => ok
               /\ (ok /\ TextOK(e) /\ VolumeOK(e) /\ Volume24OK(e)
                   /\ ExpiryOK(e)) => InOutput(e)

\* Markets with liquidity [10, 8000] pass the floor 5000, an event without
\* markets does not.
C9_Witness ==
    /\ f_pc = "returned"
    /\ IsSome(min_liquidity) /\ min_liquidity.v = 5000 /\ ~expiring_soon
    /\ f_events = <<Event(T_sub, 500, 50, <<>>),
                    Event(T_sub, 500, 50, <<M_liq(10), M_liq(8000)>>)>>
    /\ f_result = <<f_events[2]>>

(***************************************************************************)
(* PolyTerminal.run_discovery_flow                                         *)
(*                                                                         *)
(* The browse loop: one action per menu choice.  The filter choice calls   *)
(* filter_events, whose steps are the actions FilterStep and FilterReturn. *)
(***************************************************************************)
MaxFlowEvents == 2   \* _fetch_events returns 1..MaxFlowEvents events

\* An event that passes every criterion, one that fails the query, one that
\* fails the volume and the liquidity floor, one that expires too late, and
\* one whose end date makes the expiry criterion raise.
FlowUniverse ==
    {Event(T_sub, 500, 50, <<M_base>>),
     Event(T_edge, 500, 50, <<M_base>>),
     Event(T_sub, 100, 50, <<M_liq(10)>>),
     Event(T_sub, 500, 50, <<M_end(EndDate("Z", 149))>>),
     Event(T_sub, 500, 50, <<M_end(EndDate("naive", 147))>>)}

\* if not events: return -- the loop is entered with a non-empty list.
FlowLists == UNION {[1 .. n -> FlowUniverse] : n \in 1 .. MaxFlowEvents}

FlowInit ==
    /\ PageIdle
    /\ SearchIdle
    /\ FilterIdle
    /\ NormIdle
    /\ MatchIdle
    /\ TokensIdle
    /\ TwiceIdle
    /\ fl_pc = "menu"
    /\ fl_events \in FlowLists
    /\ current_view = fl_events
    /\ fl_fetched = fl_events
    /\ fl_last = "start"

NotFlowNorFilter ==
    <<pageVars, searchVars, normVars, matchVars, tokensVars, twiceVars>>

NotFlowNorFilterNorTwice ==
    <<pageVars, searchVars, normVars, matchVars, tokensVars>>

\* Mutant of FilterArgument: the filter is applied to the current view.
FilterArgument_View(evs, view) == view

\* filter_events(events, **params): the list handed to the filter.
FilterArgument(evs, view) == evs

\* choice == 'f': the four prompts (an empty answer gives None, or False),
\* then the call of filter_events; volume_24hr_min keeps its default.
FlowChooseFilter ==
    /\ fl_pc = "menu"
    /\ fl_pc' = "filtering"
    /\ fl_last' = "filtering"
    /\ f_pc' = "loop"
    /\ f_events' = FilterArgument(fl_events, current_view)
    /\ search_query' \in {None, Some(Q_ab)}
    /\ min_vol' \in {None, Some(500)}
    /\ min_liquidity' \in {None, Some(5000)}
    /\ expiring_soon' \in BOOLEAN
    /\ volume_24hr_min' = None
    /\ now' \in Nows
    /\ f_i' = 0
    /\ filtered' = <<>>
    /\ f_result' = None
    /\ f_exc' = "none"
    /\ UNCHANGED <<fl_events, current_view, fl_fetched>>
    /\ UNCHANGED NotFlowNorFilter

\* current_view = filter_events(events, **params)
FlowTakeFiltered ==
    /\ fl_pc = "filtering"
    /\ f_pc = "returned"
    /\ current_view' = f_result
    /\ fl_pc' = "menu"
    /\ fl_last' = "filter"
    /\ UNCHANGED <<fl_events, fl_fetched>>
    /\ UNCHANGED NotFlow

\* filter_events raised: nothing in the flow catches it.
FlowFilterRaises ==
    /\ fl_pc = "filtering"
    /\ f_pc = "raised"
    /\ fl_pc' = "raised"
    /\ UNCHANGED <<fl_events, current_view, fl_fetched, fl_last>>
    /\ UNCHANGED NotFlow

\* choice == 'r': current_view = events[:]
FlowReset ==
    /\ fl_pc = "menu"
    /\ current_view' = fl_events
    /\ fl_last' = "reset"
    /\ UNCHANGED <<fl_pc, fl_events, fl_fetched>>
    /\ UNCHANGED NotFlow

\* choice.isdigit(): an index inside the view opens the event, which reads
\* it; an index outside does nothing.
FlowInspect ==
    /\ fl_pc = "menu"
    /\ \E idx \in 0 .. MaxFlowEvents : fl_last' = "inspect"
    /\ UNCHANGED <<fl_pc, fl_events, current_view, fl_fetched>>
    /\ UNCHANGED NotFlow

\* choice == 'w': the wallet menu, which knows nothing of the events.
FlowWallet ==
    /\ fl_pc = "menu"
    /\ fl_last' = "wallet"
    /\ UNCHANGED <<fl_pc, fl_events, current_view, fl_fetched>>
    /\ UNCHANGED NotFlow

\* choice == 'n' (return) or 'q' (sys.exit()).
FlowLeave ==
    /\ fl_pc = "menu"
    /\ fl_pc' = "left"
    /\ UNCHANGED <<fl_events, current_view, fl_fetched, fl_last>>
    /\ UNCHANGED NotFlow

FlowNext ==
    \/ FlowChooseFilter
    \/ FilterStep
    \/ FilterReturn
    \/ FlowTakeFiltered
    \/ FlowFilterRaises
    \/ FlowReset
    \/ FlowInspect
    \/ FlowWallet
    \/ FlowLeave

SpecFlow == FlowInit /\ [][FlowNext]_vars

\* v is es with some of its elements removed, the others in their order.
IsSubsequence(v, es) ==
    \E pos \in [1 .. Len(v) -> 1 .. Len(es)] :
        /\ \A i \in 1 .. Len(v) : v[i] = es[pos[i]]
        /\ \A i \in 1 .. Len(v) - 1 : pos[i] < pos[i + 1]

\* C27: whatever menu actions were taken, the fetched list is as it was
\* fetched and current_view is an order-preserving subsequence of it; after
\* a filter action the view is the filter's verdict on the whole fetched
\* list, not on the previous view; at the start and after a reset the view
\* is the whole list; inspecting and the wallet menu leave the view alone.
C27_ViewIsSubsequenceOfFetched ==
    /\ fl_events = fl_fetched
    /\ IsSubsequence(current_view, fl_events)
    /\ fl_last = "filter" => current_view = SelectSeq(fl_events, PassesAll)
    /\ fl_last \in {"start", "reset"} => current_view = fl_events

\* A filter action that left only the second of two fetched events.
C27_Witness ==
    /\ fl_pc = "menu" /\ fl_last = "filter"
    /\ Len(fl_events) = 2
    /\ fl_events[1] # fl_events[2]
    /\ IsSome(min_vol) /\ ~expiring_soon
    /\ current_view = <<fl_events[2]>>

(***************************************************************************)
(* filter_events applied to its own result                                 *)
(*                                                                         *)
(* A first call on a list E, then a second call on what the first one      *)
(* returned, with the same criteria and the same now.                      *)
(***************************************************************************)
MaxTwiceEvents == 2   \* E holds 0..MaxTwiceEvents events

\* An event that passes every criterion, events failing one criterion each,
\* one whose title does not match but whose second market's question does,
\* one with an unreadable end date before a good one, and one whose end
\* date makes the expiry criterion raise.
TwiceUniverse ==
    {Event(T_sub, 500, 50, <<M_base>>),
     Event(T_edge, 500, 50, <<M_base>>),
     Event(T_none, 500, 50, <<M_base, M_q(T_fuzzy)>>),
     Event(T_sub, 100, 50, <<M_base>>),
     Event(T_sub, 500, 50, <<M_liq(10), M_liq(20)>>),
     Event(T_sub, 500, 50, <<M_end(EndDate("Z", 149))>>),
     Event(T_sub, 500, 50, <<M_end(EndDate("garbage", 0)), M_base>>),
     Event(T_sub, 500, 50, <<M_end(EndDate("naive", 147))>>)}

TwiceLists == UNION {[1 .. n -> TwiceUniverse] : n \in 0 .. MaxTwiceEvents}

TwiceInit ==
    /\ PageIdle
    /\ SearchIdle
    /\ NormIdle
    /\ MatchIdle
    /\ TokensIdle
    /\ FlowIdle
    /\ tw_round = 1
    /\ tw_first = None
    /\ f_pc = "loop"
    /\ f_events \in TwiceLists
    /\ min_vol \in {None, Some(500)}
    /\ min_liquidity \in {None, Some(5000)}
    /\ volume_24hr_min = None
    /\ expiring_soon \in BOOLEAN
    /\ search_query \in {None, Some(Q_ab)}
    /\ now \in Nows
    /\ f_i = 0
    /\ filtered = <<>>
    /\ f_result = None
    /\ f_exc = "none"

\* The second call: filtered = [] again, the loop over the first result.
FilterAgain ==
    /\ tw_round = 1
    /\ f_pc = "returned"
    /\ tw_round' = 2
    /\ tw_first' = [events |-> f_events, result |-> f_result]
    /\ f_events' = f_result
    /\ f_i' = 0
    /\ filtered' = <<>>
    /\ f_result' = None
    /\ f_pc' = "loop"
    /\ UNCHANGED <<min_vol, min_liquidity, volume_24hr_min, expiring_soon,
                   search_query, now, f_exc>>
    /\ UNCHANGED flowVars
    /\ UNCHANGED NotFlowNorFilterNorTwice

TwiceNext ==
    \/ FilterStep
    \/ FilterReturn
    \/ FilterAgain

SpecTwice == TwiceInit /\ [][TwiceNext]_vars

NoCriterion ==
    /\ search_query = None
    /\ min_vol = None
    /\ volume_24hr_min = None
    /\ min_liquidity = None
    /\ ~expiring_soon

\* C28: with the same criteria and the same now, filter_events applied to
\* the list a first call returned returns that list again, and does not
\* raise; with no criterion supplied a call returns a list equal to its
\* argument.
C28_IdempotentAndIdentity ==
    /\ (tw_round = 2 /\ f_pc = "returned") => f_result = tw_first.result
    /\ tw_round = 2 => f_pc # "raised"
    /\ (f_pc = "returned" /\ NoCriterion) => f_result = f_events

\* A second call has returned on a first result that had dropped one of two
\* events, under the query, the volume floor and the expiry criterion.
C28_Witness ==
    /\ tw_round = 2 /\ f_pc = "returned"
    /\ IsSome(search_query) /\ IsSome(min_vol) /\ expiring_soon
    /\ Len(tw_first.events) = 2
    /\ Len(tw_first.result) = 1
    /\ f_result = tw_first.result

\* A call with no criterion has returned its two different events.
C28_IdentityWitness ==
    /\ tw_round = 1 /\ f_pc = "returned"
    /\ NoCriterion
    /\ Len(f_events) = 2 /\ f_events[1] # f_events[2]
    /\ f_result = f_events

(***************************************************************************)
(* EventNode.from_json                                                     *)
(*                                                                         *)
(* A JSON value is a tagged record; an object's members are a function     *)
(* from its keys.                                                          *)
(***************************************************************************)
JNull == [t |-> "null", v |-> 0]
JBool(b) == [t |-> "bool", v |-> b]
JNum(n) == [t |-> "num", v |-> n]
JStr(str) == [t |-> "str", v |-> str]
JList(xs) == [t |-> "list", v |-> xs]
JObj(members) == [t |-> "obj", v |-> members]

IsDict(j) == j.t = "obj"
IsList(j) == j.t = "list"

\* key in d
HasKey(d, key) == key \in DOMAIN d.v

\* d.get(key): None when the key is absent.
Get(d, key) == IF HasKey(d, key) THEN d.v[key] ELSE JNull

\* d.get(key, default)
GetOr(d, key, default) == IF HasKey(d, key) THEN d.v[key] ELSE default

\* Python truth value of a JSON value.
JTruthy(j) ==
    CASE j.t = "null" -> FALSE
      [] j.t = "bool" -> j.v
      [] j.t = "num" -> j.v # 0
      [] j.t = "str" -> j.v # ""
      [] j.t = "list" -> j.v # <<>>
      [] j.t = "obj" -> DOMAIN j.v # {}

\* a or b
PyOr(a, b) == IF JTruthy(a) THEN a ELSE b

\* str(j).  The text of a non-empty list or object is not spelled out.
PyStr(j) ==
    CASE j.t = "null" -> "None"
      [] j.t = "bool" -> IF j.v THEN "True" ELSE "False"
      [] j.t = "num" -> ToString(j.v)
      [] j.t = "str" -> j.v
      [] j.t = "list" -> IF j.v = <<>> THEN "[]" ELSE "[...]"
      [] j.t = "obj" -> IF DOMAIN j.v = {} THEN "{}" ELSE "{...}"

\* The strings float() accepts, with their values; float() of any other
\* string raises ValueError.
FloatTexts ==
    ("0" :> 0) @@ ("5" :> 5) @@ ("-3" :> -3) @@ ("8000" :> 8000)

\* to_float: 0.0 for None, for a string float() rejects (ValueError) and for
\* a list or an object (TypeError).
to_float(val) ==
    CASE val.t = "null" -> 0
      [] val.t = "num" -> val.v
      [] val.t = "bool" -> IF val.v THEN 1 ELSE 0
      [] val.t = "str" ->
            IF val.v \in DOMAIN FloatTexts THEN FloatTexts[val.v] ELSE 0
      [] OTHER -> 0

\* The strings json.loads accepts, with their values; json.loads of any
\* other string raises JSONDecodeError.
JsonTexts ==
    ("[\"Yes\", \"No\"]" :> JList(<<JStr("Yes"), JStr("No")>>))
    @@ ("[\"11\", \"22\"]" :> JList(<<JStr("11"), JStr("22")>>))
    @@ ("[\"11\"]" :> JList(<<JStr("11")>>))
    @@ ("[]" :> JList(<<>>))
    @@ ("{}" :> JObj(<<>>))
    @@ ("5" :> JNum(5))
    @@ ("null" :> JNull)
    @@ ("\"Yes\"" :> JStr("Yes"))

\* safe_json_load: a list as it is, a string through json.loads (whatever
\* it decodes to; [] on JSONDecodeError), [] for any other type.
safe_json_load(val) ==
    IF val.t = "list" THEN val
    ELSE IF val.t = "str"
    THEN IF val.v \in DOMAIN JsonTexts THEN JsonTexts[val.v] ELSE JList(<<>>)
    ELSE JList(<<>>)

\* MarketNode(...) built from one market source.
MarketNodeOf(m) ==
    [id |-> PyStr(Get(m, "id")),
     condition_id |-> PyStr(Get(m, "conditionId")),
     clob_token_ids |-> safe_json_load(Get(m, "clobTokenIds")),
     question |-> PyStr(PyOr(PyOr(Get(m, "question"), Get(m, "title")),
                             JStr("Unknown Question"))),
     outcomes |-> safe_json_load(Get(m, "outcomes")),
     outcome_prices |-> safe_json_load(Get(m, "outcomePrices")),
     uma_bond |-> PyStr(Get(m, "umaBond")),
     liquidity |-> to_float(Get(m, "liquidity")),
     volume |-> to_float(Get(m, "volume")),
     volume_24hr |-> to_float(Get(m, "volume24hr")),
     volume_1wk |-> to_float(Get(m, "volume1wk")),
     price_change_24hr |-> to_float(PyOr(Get(m, "oneDayPriceChange"),
                                         Get(m, "priceChange24h"))),
     best_bid |-> to_float(Get(m, "bestBid")),
     best_ask |-> to_float(Get(m, "bestAsk")),
     end_date |-> PyStr(Get(m, "endDate"))]

\* "markets" in data and isinstance(data["markets"], list)
IsEventRooted(d) == HasKey(d, "markets") /\ IsList(d.v["markets"])

\* Mutant of MarketListSource: a record that is not event-rooted yields no
\* market.
MarketListSource_NoWrap(d) == IF IsEventRooted(d) THEN d.v["markets"].v ELSE <<>>

\* Where the markets are read from.
MarketListSource(d) == IF IsEventRooted(d) THEN d.v["markets"].v ELSE <<d>>

\* Mutant of EventSource: the first element of a non-empty events list is
\* preferred even when the record carries a markets list.
EventSource_ParentFirst(d) ==
    LET raw_events == GetOr(d, "events", JList(<<>>))
    IN IF IsList(raw_events) /\ Len(raw_events.v) > 0
       THEN raw_events.v[1]
       ELSE d

\* Where the event's own fields are read from.
EventSource(d) ==
    IF IsEventRooted(d) THEN d
    ELSE LET raw_events == GetOr(d, "events", JList(<<>>))
         IN IF IsList(raw_events) /\ Len(raw_events.v) > 0
            THEN raw_events.v[1]
            ELSE d

\* The EventNode, or the AttributeError of calling .get on a market source
\* or an event source that is not a dict.
from_json(d) ==
    LET market_list_source == MarketListSource(d)
        event_source == EventSource(d)
    IN IF \E k \in 1 .. Len(market_list_source) : ~IsDict(market_list_source[k])
       THEN [kind |-> "raise", exc |-> "AttributeError"]
       ELSE IF ~IsDict(event_source)
       THEN [kind |-> "raise", exc |-> "AttributeError"]
       ELSE [kind |-> "EventNode",
             id |-> PyStr(Get(event_source, "id")),
             slug |-> PyStr(GetOr(event_source, "slug", JStr(""))),
             title |-> PyStr(GetOr(event_source, "title", JStr("Unknown Event"))),
             description |-> PyStr(GetOr(event_source, "description", JStr(""))),
             created_at |-> PyStr(GetOr(event_source, "createdAt", JStr(""))),
             volume |-> to_float(Get(event_source, "volume")),
             volume_24hr |-> to_float(Get(event_source, "volume24hr")),
             markets |-> [k \in 1 .. Len(market_list_source) |->
                              MarketNodeOf(market_list_source[k])]]

\* ---- the raw records tried ----
MaxMarkets == 2      \* a list-valued markets field holds 0..MaxMarkets elements
MaxParents == 2      \* a list-valued events field holds 0..MaxParents elements

SeqsUpTo(S, n) == UNION {[1 .. k -> S] : k \in 0 .. n}

Absent == [t |-> "absent", v |-> 0]

\* members with key set to val, or without the key when val is Absent.
WithKey(members, key, val) ==
    IF val = Absent THEN members ELSE (key :> val) @@ members

\* A market as the catalog sends it, its list fields JSON-encoded.
MarketFields ==
    [id |-> JStr("11"), conditionId |-> JStr("0xc"), question |-> JStr("Q?"),
     clobTokenIds |-> JStr("[\"11\", \"22\"]"),
     outcomes |-> JStr("[\"Yes\", \"No\"]"),
     outcomePrices |-> JList(<<JStr("5"), JStr("0")>>),
     liquidity |-> JStr("8000"), volume |-> JNum(5),
     endDate |-> JStr("2025-12-31T00:00:00Z"),
     oneDayPriceChange |-> JNum(0), priceChange24h |-> JNum(5)]

\* An event's own fields.
EventFields ==
    [id |-> JNum(7), slug |-> JStr("will-it"), title |-> JStr("Will it?"),
     description |-> JStr("d"), createdAt |-> JStr("2025-01-01"),
     volume |-> JStr("8000"), volume24hr |-> JNum(5)]

ParentFields ==
    [id |-> JNum(9), slug |-> JStr("parent"), title |-> JStr("Parent"),
     volume |-> JNum(5)]

\* Values of any JSON type that are not objects.
NonObjects == {JNull, JStr("x"), JNum(1), JList(<<>>)}

\* What the record's markets field can be: absent, a list of objects and
\* other values, or a value that is not a list.
MarketsFieldValues ==
    {Absent}
    \cup {JList(ms) : ms \in SeqsUpTo({JObj(MarketFields), JObj(<<>>)}
                                       \cup NonObjects, MaxMarkets)}
    \cup {JNull, JStr("[]"), JNum(3), JObj(<<>>)}

\* What the record's events field can be.
EventsFieldValues ==
    {Absent}
    \cup {JList(es) : es \in SeqsUpTo({JObj(ParentFields)} \cup NonObjects,
                                       MaxParents)}
    \cup {JNull, JStr("x"), JObj(ParentFields)}

RootFields == {EventFields, MarketFields, <<>>}

\* The keys of a market's list-valued fields.
ListFieldKeys == {"clobTokenIds", "outcomes", "outcomePrices"}

\* What a list-valued field can arrive as: a native list, a string holding
\* a JSON list, a string holding JSON of another type, a string that is not
\* JSON, a value of another type, or nothing.
ListFieldValues ==
    {JList(<<JStr("Yes"), JStr("No")>>), JList(<<>>),
     JStr("[\"Yes\", \"No\"]"), JStr("[]"),
     JStr("5"), JStr("{}"), JStr("null"), JStr("\"Yes\""),
     JStr("oops"), JStr(""),
     JNum(3), JNull, JBool(TRUE), JObj(<<>>), Absent}

\* Markets that differ from MarketFields in one list-valued field.
ListFieldMarkets ==
    {WithKey([k \in (DOMAIN MarketFields) \ {key} |-> MarketFields[k]], key, val) :
        key \in ListFieldKeys, val \in ListFieldValues}

RawRecords ==
    {JObj(WithKey(WithKey(root, "markets", mk), "events", ev)) :
        root \in RootFields, mk \in MarketsFieldValues, ev \in EventsFieldValues}
    \cup {JObj(m) : m \in ListFieldMarkets}
    \cup {JObj(WithKey(EventFields, "markets", JList(<<JObj(m)>>))) :
              m \in ListFieldMarkets}

NormInit ==
    /\ PageIdle
    /\ SearchIdle
    /\ FilterIdle
    /\ MatchIdle
    /\ TokensIdle
    /\ TwiceIdle
    /\ FlowIdle
    /\ n_pc = "start"
    /\ data \in RawRecords
    /\ n_node = None
    /\ n_exc = "none"

\* EventNode.from_json(data)
FromJson ==
    /\ n_pc = "start"
    /\ LET r == from_json(data)
       IN IF r.kind = "raise"
          THEN /\ n_pc' = "raised"
               /\ n_exc' = r.exc
               /\ n_node' = n_node
          ELSE /\ n_pc' = "built"
               /\ n_node' = r
               /\ n_exc' = n_exc
    /\ UNCHANGED data
    /\ UNCHANGED NotNorm

NormNext ==
    \/ FromJson

SpecNorm == NormInit /\ [][NormNext]_vars

\* C10: from_json never raises, whatever the types of the markets field, of
\* the elements of a list-valued markets, of the events field and of its
\* first element.
C10_FromJsonNeverRaises ==
    n_pc # "raised"

\* The event-level fields of node, read from the JSON object src as the
\* catalog documents them.
EventFieldsReadFrom(node, src) ==
    /\ node.id = PyStr(Get(src, "id"))
    /\ node.slug = (IF HasKey(src, "slug") THEN PyStr(src.v["slug"]) ELSE "")
    /\ node.title =
         (IF HasKey(src, "title") THEN PyStr(src.v["title"]) ELSE "Unknown Event")
    /\ node.description =
         (IF HasKey(src, "description") THEN PyStr(src.v["description"]) ELSE "")
    /\ node.created_at =
         (IF HasKey(src, "createdAt") THEN PyStr(src.v["createdAt"]) ELSE "")
    /\ node.volume = to_float(Get(src, "volume"))
    /\ node.volume_24hr = to_float(Get(src, "volume24hr"))

\* Market node mk carries the identifying fields of the JSON object src.
MarketReadFrom(mk, src) ==
    /\ mk.id = PyStr(Get(src, "id"))
    /\ mk.condition_id = PyStr(Get(src, "conditionId"))
    /\ mk.liquidity = to_float(Get(src, "liquidity"))
    /\ mk.end_date = PyStr(Get(src, "endDate"))

\* The record carries a list-valued markets field.
HasMarketsList == HasKey(data, "markets") /\ data.v["markets"].t = "list"

\* C11: when the record's markets field is a list, the event built has one
\* market per element of that list, in the list's order, and its id, slug,
\* title, description, creation time and volumes are those of the root
\* record, never those of an events field.
C11_MarketsListMakesRootTheEvent ==
    (n_pc = "built" /\ HasMarketsList) =>
        LET ms == data.v["markets"].v
        IN /\ Len(n_node.markets) = Len(ms)
           /\ \A k \in 1 .. Len(ms) : MarketReadFrom(n_node.markets[k], ms[k])
           /\ EventFieldsReadFrom(n_node, data)

\* An event record with two different markets that also carries an events
\* list naming another event.
C11_Witness ==
    /\ n_pc = "built"
    /\ data = JObj(WithKey(WithKey(EventFields, "markets",
                                   JList(<<JObj(<<>>), JObj(MarketFields)>>)),
                           "events", JList(<<JObj(ParentFields)>>)))
    /\ n_node.id = "7"
    /\ Len(n_node.markets) = 2
    /\ n_node.markets[1].id = "None"
    /\ n_node.markets[2].id = "11"

\* C12: when the record has no list-valued markets field (absent, or not a
\* list), the event built has exactly one market, read from the root record,
\* and its own fields are those of the first element of events when events
\* is a non-empty list, those of the root record otherwise.
C12_NoMarketsListMakesRootTheMarket ==
    (n_pc = "built" /\ ~HasMarketsList) =>
        LET parent_given == /\ HasKey(data, "events")
                            /\ data.v["events"].t = "list"
                            /\ data.v["events"].v # <<>>
            src == IF parent_given THEN data.v["events"].v[1] ELSE data
        IN /\ Len(n_node.markets) = 1
           /\ MarketReadFrom(n_node.markets[1], data)
           /\ EventFieldsReadFrom(n_node, src)

\* A market record whose markets field is a string and whose events list
\* names its parent event.
C12_Witness ==
    /\ n_pc = "built"
    /\ data = JObj(WithKey(WithKey(MarketFields, "markets", JStr("[]")),
                           "events", JList(<<JObj(ParentFields)>>)))
    /\ n_node.id = "9"
    /\ n_node.title = "Parent"
    /\ Len(n_node.markets) = 1
    /\ n_node.markets[1].id = "11"

\* What the contract says a list-valued field decodes to: a native list as
\* it is, a string through the JSON parser when the parsed value is a list,
\* the empty list for everything else.
DecodedList(raw) ==
    IF raw.t = "list" THEN raw
    ELSE IF raw.t = "str" /\ raw.v \in DOMAIN JsonTexts
            /\ JsonTexts[raw.v].t = "list"
    THEN JsonTexts[raw.v]
    ELSE JList(<<>>)

\* The JSON object market k of the event built was read from.
MarketSourceAt(k) == IF HasMarketsList THEN data.v["markets"].v[k] ELSE data

\* C13: outcomes, outcome prices and instrument ids of every market built
\* are lists: a native list is kept, a string is JSON-parsed and kept only
\* when it parses to a list, and a string parsing to another type, a string
\* that does not parse and a value of any other type give the empty list.
C13_ListFieldsDecodeToLists ==
    n_pc = "built" =>
        \A k \in 1 .. Len(n_node.markets) :
            LET mk == n_node.markets[k]
                src == MarketSourceAt(k)
            IN /\ mk.outcomes.t = "list"
               /\ mk.outcome_prices.t = "list"
               /\ mk.clob_token_ids.t = "list"
               /\ mk.outcomes = DecodedList(Get(src, "outcomes"))
               /\ mk.outcome_prices = DecodedList(Get(src, "outcomePrices"))
               /\ mk.clob_token_ids = DecodedList(Get(src, "clobTokenIds"))

\* The value parses as a number: a JSON number, or a string float() accepts.
ParsesAsNumber(val) ==
    val.t = "num" \/ (val.t = "str" /\ val.v \in DOMAIN FloatTexts)

\* C23: when a market source carries oneDayPriceChange with a value that
\* parses as a number, zero included, the market's 24h price change is that
\* value; priceChange24h is read only when oneDayPriceChange is absent.
C23_PrimaryPriceChangeWins ==
    n_pc = "built" =>
        \A k \in 1 .. Len(n_node.markets) :
            LET mk == n_node.markets[k]
                src == MarketSourceAt(k)
            IN IF HasKey(src, "oneDayPriceChange")
               THEN ParsesAsNumber(src.v["oneDayPriceChange"]) =>
                        mk.price_change_24hr = to_float(src.v["oneDayPriceChange"])
               ELSE mk.price_change_24hr = to_float(Get(src, "priceChange24h"))

(***************************************************************************)
(* MarketNode.tokens                                                       *)
(***************************************************************************)
\* The empty dict.
EmptyDictOfTokens == [l \in {} |-> ""]

\* dict(zip(keys, values)): a key that occurs twice keeps its last value.
DictZip(keys, values) ==
    [l \in {keys[i] : i \in 1 .. Len(keys)} |->
        LET last == CHOOSE i \in 1 .. Len(keys) :
                        /\ keys[i] = l
                        /\ \A j \in 1 .. Len(keys) : keys[j] = l => j <= i
        IN values[last]]

\* MarketNode.tokens
tokens(outcomes, clob_token_ids) ==
    IF Len(outcomes) = Len(clob_token_ids)
    THEN DictZip(outcomes, clob_token_ids)
    ELSE EmptyDictOfTokens

MaxOutcomes == 3     \* outcomes and clob_token_ids hold 0..MaxOutcomes entries

OutcomeLabels == {"Yes", "No"}
TokenIds == {"11", "22"}

TokensInit ==
    /\ PageIdle
    /\ SearchIdle
    /\ FilterIdle
    /\ NormIdle
    /\ MatchIdle
    /\ TwiceIdle
    /\ FlowIdle
    /\ tk_pc = "call"
    /\ tk_outcomes \in SeqsUpTo(OutcomeLabels, MaxOutcomes)
    /\ tk_clob_token_ids \in SeqsUpTo(TokenIds, MaxOutcomes)
    /\ tk_result = None

\* market.tokens
TokensCall ==
    /\ tk_pc = "call"
    /\ tk_result' = tokens(tk_outcomes, tk_clob_token_ids)
    /\ tk_pc' = "returned"
    /\ UNCHANGED <<tk_outcomes, tk_clob_token_ids>>
    /\ UNCHANGED NotTokens

TokensNext ==
    \/ TokensCall

SpecTokens == TokensInit /\ [][TokensNext]_vars

\* C24: with outcomes and clob_token_ids of the same length the map sends
\* outcomes[i] to clob_token_ids[i] for every index i, two equal labels
\* included; with different lengths the map is empty.
C24_TokensPairByIndex ==
    tk_pc = "returned" =>
        IF Len(tk_outcomes) = Len(tk_clob_token_ids)
        THEN /\ DOMAIN tk_result = {tk_outcomes[i] : i \in 1 .. Len(tk_outcomes)}
             /\ \A i \in 1 .. Len(tk_outcomes) :
                    tk_result[tk_outcomes[i]] = tk_clob_token_ids[i]
        ELSE DOMAIN tk_result = {}

====
